---- MODULE Spec2Model ----
(***************************************************************************)
(* A model of abrookins/radar: the CrimeFinder of package radar            *)
(* (src/unnamed/part_002, the version src/crimes/crimes_test.go tests),   *)
(* and of its older versions where they differ: the CrimeTracker of       *)
(* src/crimes.go, the Crimes.ToJson of src/unnamed/part_003 and the        *)
(* server of src/main.go, which builds its table on the first request.     *)
(*                                                                         *)
(* Representation.                                                         *)
(*  - A CSV field is a sequence of one-character strings.                  *)
(*  - A float64 is a sign-magnitude record [neg, mag]: mag counts units of *)
(*    1e-5 degree, so HALF_MILE_LAT = 0.00714 is 714 units.  The sign bit  *)
(*    is kept apart from the magnitude because Go keeps it: "-0" parses to *)
(*    negative zero, and %v prints it back as "-0".                        *)
(*  - A *CrimeLocation is an index into heap, the sequence of allocated    *)
(*    CrimeLocation objects; a LocationLookup maps keys to such indices.   *)
(***************************************************************************)
EXTENDS Integers, Sequences, FiniteSets, TLC

VARIABLES
    file,       \* the rows csv.ReadAll returns for the data file
    pc,         \* where NewCrimeFinder stands: start, load, index, ready, failed
    rows,       \* filteredRows, the result of readCrimes
    i,          \* loadFromCsv: index of the next row of rows (1-based)
    locations,  \* a LocationLookup under construction (loadFromCsv's local, or a caller's own)
    heap,       \* the CrimeLocation objects allocated so far
    finder,     \* the CrimeFinder: LocationLookup, CrimeTypes, Tree
    err,        \* the error NewCrimeFinder returns
    calls,      \* direct calls of getOrCreateFromCsvRow: <<row, returned location, returned error>>
    result,     \* the SearchResult and error of the last FindNear
    procs       \* the goroutines that serve requests at the same time: each one's position and locals

vars == <<file, pc, rows, i, locations, heap, finder, err, calls, result, procs>>

\* ---------------------------------------------------------------- bounds

\* The longest data file, in rows.
MaxRows == 3

\* The most direct calls of getOrCreateFromCsvRow on one table.
MaxCalls == 3

\* No goroutine serves a request: the program is run by one caller.
NoProcs == <<>>

\* ------------------------------------------------------------- constants

\* 0.00714 degree, in units of 1e-5 degree.
HALF_MILE_LAT == 714

\* 0.00724 degree, in units of 1e-5 degree.
HALF_MILE_LNG == 724

\* ------------------------------------------------------------ text, numbers

Digits == <<"0", "1", "2", "3", "4", "5", "6", "7", "8", "9">>

IsDigit(c) == \E d \in 1..10 : Digits[d] = c

DigitVal(c) == (CHOOSE d \in 1..10 : Digits[d] = c) - 1

\* The value of a digit string in the given base, most significant digit first.
RECURSIVE DigitsVal(_, _, _)
DigitsVal(s, base, acc) ==
    IF s = <<>> THEN acc
    ELSE DigitsVal(Tail(s), base, acc * base + DigitVal(Head(s)))

AllDigits(s, base) ==
    /\ Len(s) > 0
    /\ \A k \in 1..Len(s) : IsDigit(s[k]) /\ DigitVal(s[k]) < base

HasSign(s) == Len(s) > 0 /\ s[1] \in {"+", "-"}

Unsigned(s) == IF HasSign(s) THEN Tail(s) ELSE s

\* strconv.ParseFloat(s, 64) on the texts of the model: an optional sign and
\* decimal digits.  ok is err == nil; f keeps the sign apart ("-0" is -0).
ParseFloat(s) ==
    IF AllDigits(Unsigned(s), 10)
    THEN [ok |-> TRUE,
          f  |-> [neg |-> (HasSign(s) /\ s[1] = "-"), mag |-> DigitsVal(Unsigned(s), 10, 0)]]
    ELSE [ok |-> FALSE, f |-> [neg |-> FALSE, mag |-> 0]]

\* strconv.ParseInt(s, 0, 64): base 0 takes the base from the prefix, so a
\* leading "0" before more digits announces octal.
ParseInt(s) ==
    LET u    == Unsigned(s)
        oct  == Len(u) > 1 /\ u[1] = "0"
        base == IF oct THEN 8 ELSE 10
        body == IF oct THEN Tail(u) ELSE u
        sgn  == IF HasSign(s) /\ s[1] = "-" THEN -1 ELSE 1
    IN  IF AllDigits(body, base)
        THEN [ok |-> TRUE, n |-> sgn * DigitsVal(body, base, 0)]
        ELSE [ok |-> FALSE, n |-> 0]

\* The decimal digits of a natural number, without leading zeros.
RECURSIVE NatText(_)
NatText(n) ==
    IF n < 10 THEN <<Digits[n + 1]>>
    ELSE NatText(n \div 10) \o <<Digits[(n % 10) + 1]>>

\* The float64 that are not numbers of the grid: the infinities and NaN.
PosInf == [inf |-> TRUE, neg |-> FALSE]

NegInf == [inf |-> TRUE, neg |-> TRUE]

NaN == [nan |-> TRUE]

IsFinite(f) == f \notin {PosInf, NegInf, NaN}

\* fmt's %v of a float64: the shortest text that parses back to the same value,
\* and NaN, +Inf, -Inf for the values that are no numbers.
FormatV(f) ==
    IF f = NaN THEN <<"N", "a", "N">>
    ELSE IF f = PosInf THEN <<"+", "I", "n", "f">>
    ELSE IF f = NegInf THEN <<"-", "I", "n", "f">>
    ELSE (IF f.neg THEN <<"-">> ELSE <<>>) \o NatText(f.mag)

\* The number a float64 stands for (both zeros stand for 0).
Num(f) == IF f.neg THEN 0 - f.mag ELSE f.mag

\* The float64 of a number; an arithmetic result that is zero is +0.
Float(n) == [neg |-> n < 0, mag |-> IF n < 0 THEN 0 - n ELSE n]

\* f + n for a number n of the grid: an infinity and NaN absorb it.
FloatAdd(f, n) == IF IsFinite(f) THEN Float(Num(f) + n) ELSE f

\* ------------------------------------------------------------------ rows

\* A CsvRow: Go's row[0], row[1], row[2], row[3], row[8], row[9].
Row(id, date, time, type, lat, lng) ==
    [id |-> id, date |-> date, time |-> time, type |-> type, lat |-> lat, lng |-> lng]

\* A Point.
Point(lat, lng) == [Lat |-> lat, Lng |-> lng]

\* A Crime.
Crime(id, date, time, type) == [Id |-> id, Date |-> date, Time |-> time, Type |-> type]

\* make(LocationLookup): the empty table.
EmptyLookup == [k \in {} |-> 0]

\* The nil *CrimeLocation.
NilLocation == 0

\* GetCoordinateKey with the longitude left out of the key.
GetCoordinateKeyLatOnly(x, y) == FormatV(x)

\* GetCoordinateKey: fmt.Sprintf("%v,%v", x, y).
GetCoordinateKey(x, y) == FormatV(x) \o <<",">> \o FormatV(y)

\* floatForCol: the column's text as a float64, or an error.
floatForCol(val) == ParseFloat(val)

\* floatCoordsFromRow that does not look at the longitude's error.
floatCoordsFromRowLatOnly(row) ==
    LET lat == ParseFloat(row.lat)
        lng == ParseFloat(row.lng)
    IN  IF ~lat.ok THEN [ok |-> FALSE, coords |-> <<>>]
        ELSE [ok |-> TRUE, coords |-> <<lat.f, lng.f>>]

\* floatCoordsFromRow: latitude first; the first column that fails decides.
floatCoordsFromRow(row) ==
    LET lat == floatForCol(row.lat)
        lng == floatForCol(row.lng)
    IN  IF ~lat.ok THEN [ok |-> FALSE, coords |-> <<>>]
        ELSE IF ~lng.ok THEN [ok |-> FALSE, coords |-> <<>>]
        ELSE [ok |-> TRUE, coords |-> <<lat.f, lng.f>>]

\* LocationLookup.getOrCreateFromCsvRow on table locs with objects hp: the
\* table and the objects after the call, the location returned and whether
\* the error returned is nil.
getOrCreateFromCsvRow(locs, hp, row) ==
    LET c == floatCoordsFromRow(row)
    IN  IF ~c.ok
        THEN [locs |-> locs, heap |-> hp, location |-> NilLocation, ok |-> FALSE]
        ELSE LET key == GetCoordinateKey(c.coords[1], c.coords[2])
             IN  IF key \in DOMAIN locs
                 THEN [locs |-> locs, heap |-> hp, location |-> locs[key], ok |-> TRUE]
                 ELSE LET location == [Point  |-> Point(c.coords[1], c.coords[2]),
                                       Crimes |-> <<>>]
                      IN  [locs     |-> (key :> (Len(hp) + 1)) @@ locs,
                           heap     |-> Append(hp, location),
                           location |-> Len(hp) + 1,
                           ok       |-> TRUE]

\* isFloat that only asks for some text.
isFloatNonEmpty(s) == s # <<>>

\* isFloat.
isFloat(s) == ParseFloat(s).ok

\* filterRows that ends its loop at the first row with an empty coordinate.
RECURSIVE filterRowsStopsAtEmpty(_)
filterRowsStopsAtEmpty(rs) ==
    IF rs = <<>> THEN <<>>
    ELSE LET row == Head(rs)
         IN  IF row.lat = <<>> \/ row.lng = <<>> THEN <<>>
             ELSE IF ~isFloat(row.lat) \/ ~isFloat(row.lng)
                  THEN filterRowsStopsAtEmpty(Tail(rs))
             ELSE <<row>> \o filterRowsStopsAtEmpty(Tail(rs))

\* readCrimes' filter: the rows with both coordinate columns non-empty and
\* parseable, in file order.
RECURSIVE filterRows(_)
filterRows(rs) ==
    IF rs = <<>> THEN <<>>
    ELSE LET row == Head(rs)
         IN  IF row.lat = <<>> \/ row.lng = <<>> THEN filterRows(Tail(rs))
             ELSE IF ~isFloat(row.lat) \/ ~isFloat(row.lng) THEN filterRows(Tail(rs))
             ELSE <<row>> \o filterRows(Tail(rs))

\* CrimeTypes.Contains.
Contains(types, crimeType) == \E k \in 1..Len(types) : types[k] = crimeType

\* ------------------------------------------------------------- the kd-tree
\* github.com/unit3/kdtree is a dependency, not part of the repository: the
\* tree is modelled after the design's description of it, a median split on
\* alternating dimensions and a range search over closed intervals.

\* The nil *kdtree.Tree of a CrimeFinder that was never indexed.
NilTree == [built |-> FALSE]

\* A tree with no node.
Leaf == [nil |-> TRUE]

\* The less-than of two float64: false when either is NaN.
FloatLess(a, b) ==
    IF a = NaN \/ b = NaN THEN FALSE
    ELSE IF a = PosInf \/ b = NegInf THEN FALSE
    ELSE IF a = NegInf \/ b = PosInf THEN TRUE
    ELSE Num(a) < Num(b)

\* nodes with node c inserted before the first node it is smaller than in
\* dimension axis (a stable insertion).
RECURSIVE InsertByAxis(_, _, _)
InsertByAxis(sorted, c, axis) ==
    IF sorted = <<>> THEN <<c>>
    ELSE IF FloatLess(c[axis], Head(sorted)[axis]) THEN <<c>> \o sorted
    ELSE <<Head(sorted)>> \o InsertByAxis(Tail(sorted), c, axis)

RECURSIVE SortByAxis(_, _)
SortByAxis(nodes, axis) ==
    IF nodes = <<>> THEN <<>>
    ELSE InsertByAxis(SortByAxis(SubSeq(nodes, 1, Len(nodes) - 1), axis),
                      nodes[Len(nodes)], axis)

\* kdtree.BuildTree: the median of the nodes in the level's dimension
\* (dimension 1 at the root, then 2, then 1 again) is the root of the subtree.
RECURSIVE BuildSubtree(_, _)
BuildSubtree(nodes, depth) ==
    IF nodes = <<>> THEN Leaf
    ELSE LET axis   == (depth % 2) + 1
             sorted == SortByAxis(nodes, axis)
             median == (Len(sorted) \div 2) + 1
         IN  [nil         |-> FALSE,
              Coordinates |-> sorted[median],
              axis        |-> axis,
              left        |-> BuildSubtree(SubSeq(sorted, 1, median - 1), depth + 1),
              right       |-> BuildSubtree(SubSeq(sorted, median + 1, Len(sorted)), depth + 1)]

BuildTree(nodes) == [built |-> TRUE, root |-> BuildSubtree(nodes, 0)]

\* Whether a node's coordinates lie in every dimension's closed interval.
InRange(c, ranges) ==
    \A d \in DOMAIN ranges :
        /\ ~FloatLess(c[d], ranges[d].Min)
        /\ ~FloatLess(ranges[d].Max, c[d])

\* The range search: a subtree is left out when the split dimension's interval
\* lies wholly on the other side of the node.
RECURSIVE SearchRange(_, _)
SearchRange(t, ranges) ==
    IF t.nil THEN <<>>
    ELSE (IF ~FloatLess(t.Coordinates[t.axis], ranges[t.axis].Min)
          THEN SearchRange(t.left, ranges) ELSE <<>>)
         \o (IF InRange(t.Coordinates, ranges) THEN <<t.Coordinates>> ELSE <<>>)
         \o (IF ~FloatLess(ranges[t.axis].Max, t.Coordinates[t.axis])
             THEN SearchRange(t.right, ranges) ELSE <<>>)

\* kdtree.Tree.FindRange.
FindRange(tree, ranges) == SearchRange(tree.root, ranges)

\* --------------------------------------------------------- the CrimeFinder

\* CrimeFinder{}: the zero value.
ZeroFinder == [LocationLookup |-> EmptyLookup, CrimeTypes |-> <<>>, Tree |-> NilTree]

\* NodeOf with the latitude and the longitude exchanged.
NodeOfSwapped(location) == <<location.Point.Lng, location.Point.Lat>>

\* The kd-tree node NewCrimeFinder makes of a location.
NodeOf(location) == <<location.Point.Lat, location.Point.Lng>>

\* The orders in which Go may range over a map with these keys.
RangeOrders(keys) ==
    {o \in [1..Cardinality(keys) -> keys] : \A a, b \in DOMAIN o : o[a] = o[b] => a = b}

\* QueryRanges with the two dimensions exchanged.
QueryRangesSwapped(query) ==
    <<[Min |-> FloatAdd(query.Lng, 0 - HALF_MILE_LNG), Max |-> FloatAdd(query.Lng, HALF_MILE_LNG)],
      [Min |-> FloatAdd(query.Lat, 0 - HALF_MILE_LAT), Max |-> FloatAdd(query.Lat, HALF_MILE_LAT)]>>

\* QueryRanges with the latitude's half-width used for both dimensions.
QueryRangesOneWidth(query) ==
    <<[Min |-> FloatAdd(query.Lat, 0 - HALF_MILE_LAT), Max |-> FloatAdd(query.Lat, HALF_MILE_LAT)],
      [Min |-> FloatAdd(query.Lng, 0 - HALF_MILE_LAT), Max |-> FloatAdd(query.Lng, HALF_MILE_LAT)]>>

\* The kdtree.Range map of FindNear (dimension 0 is 1 here, dimension 1 is 2).
QueryRanges(query) ==
    <<[Min |-> FloatAdd(query.Lat, 0 - HALF_MILE_LAT), Max |-> FloatAdd(query.Lat, HALF_MILE_LAT)],
      [Min |-> FloatAdd(query.Lng, 0 - HALF_MILE_LNG), Max |-> FloatAdd(query.Lng, HALF_MILE_LNG)]>>

\* LookupNodes that ends its loop at the first node whose key the table lacks.
RECURSIVE LookupNodesStops(_, _)
LookupNodesStops(results, lookup) ==
    IF results = <<>> THEN <<>>
    ELSE LET node == Head(results)
             key  == GetCoordinateKey(node[1], node[2])
         IN  IF key \in DOMAIN lookup
             THEN <<lookup[key]>> \o LookupNodesStops(Tail(results), lookup)
             ELSE <<>>

\* FindNear's loop over the nodes found: the locations whose key the table holds.
RECURSIVE LookupNodes(_, _)
LookupNodes(results, lookup) ==
    IF results = <<>> THEN <<>>
    ELSE LET node == Head(results)
             key  == GetCoordinateKey(node[1], node[2])
         IN  (IF key \in DOMAIN lookup THEN <<lookup[key]>> ELSE <<>>)
             \o LookupNodes(Tail(results), lookup)

\* No FindNear was called yet.  set: FindNear returned this result; all: All
\* returned it; panic: the call did not return.
\* nilList: Locations is the nil slice, as in the zero SearchResult.
NoResult ==
    [set |-> FALSE, Query |-> Point(Float(0), Float(0)), Locations |-> <<>>, ok |-> TRUE,
     all |-> FALSE, panic |-> FALSE, nilList |-> TRUE]

\* ---------------------------------------------------------------- inputs

\* The rows a data file is made of.  Coordinates are chosen around the query
\* point (800, -800): at the centre, on the edges of its box, one unit past them.
FileRows ==
    { Row(<<"7">>, "05/27/2011", "08:35:00", "Liquor Laws",
          <<"8", "0", "0">>, <<"-", "8", "0", "0">>),
      Row(<<"8">>, "05/28/2011", "09:00:00", "Robbery",
          <<"+", "8", "0", "0">>, <<"-", "0", "8", "0", "0">>),
      Row(<<"9">>, "05/29/2011", "10:00:00", "Liquor Laws",
          <<"1", "5", "1", "4">>, <<"-", "7", "6">>),
      Row(<<"0", "1", "0">>, "05/30/2011", "11:00:00", "Robbery",
          <<"1", "5", "1", "5">>, <<"-", "8", "0", "0">>),
      Row(<<"1", "1">>, "05/31/2011", "12:00:00", "Liquor Laws",
          <<"8", "0", "0">>, <<"-", "7", "5">>),
      Row(<<"1", "7">>, "06/08/2011", "20:00:00", "Robbery",
          <<"8", "0", "0">>, <<"-", "8", "0">>),
      Row(<<"x", "7">>, "06/01/2011", "13:00:00", "Arson",
          <<"8", "6">>, <<"-", "1", "5", "2", "4">>),
      Row(<<"x", "8">>, "06/02/2011", "14:00:00", "Arson",
          <<"8", "0", "0">>, <<"-", "8", "0", "0">>),
      Row(<<"1", "2">>, "06/03/2011", "15:00:00", "Robbery",
          <<"8", "x", "0">>, <<"-", "8", "0", "0">>),
      Row(<<"1", "3">>, "06/04/2011", "16:00:00", "Robbery",
          <<"8", "0", "0">>, <<"x">>),
      Row(<<"1", "4">>, "06/05/2011", "17:00:00", "Robbery",
          <<>>, <<"-", "8", "0", "0">>) }

\* The rows getOrCreateFromCsvRow is called with directly: those of a file, and
\* the two zeros of a float64.
CallRows ==
    FileRows \cup
    { Row(<<"1", "5">>, "06/06/2011", "18:00:00", "Robbery",
          <<"0">>, <<"-", "8", "0", "0">>),
      Row(<<"1", "6">>, "06/07/2011", "19:00:00", "Robbery",
          <<"-", "0">>, <<"-", "8", "0", "0">>) }

\* The query points.
Queries == { Point(Float(800), Float(0 - 800)), Point(Float(801), Float(0 - 800)) }

\* The sequences over S of length at most n.
SeqsUpTo(S, n) == UNION {[1..k -> S] : k \in 0..n}

\* ---------------------------------------------------------------- actions

Init ==
    /\ file \in SeqsUpTo(FileRows, MaxRows)
    /\ pc = "start"
    /\ rows = <<>>
    /\ i = 1
    /\ locations = EmptyLookup
    /\ heap = <<>>
    /\ finder = ZeroFinder
    /\ err = "none"
    /\ calls = <<>>
    /\ result = NoResult
    /\ procs = NoProcs

\* NewCrimeFinder up to the call of loadFromCsv: readCrimes returned the
\* filtered rows, loadFromCsv made its empty table.
ReadCrimes ==
    /\ pc = "start"
    /\ calls = <<>>
    /\ rows' = filterRows(file)
    /\ i' = 1
    /\ locations' = EmptyLookup
    /\ pc' = "load"
    /\ UNCHANGED <<procs, file, heap, finder, err, calls, result>>

\* readCrimes fails to open or to read the file: NewCrimeFinder returns the
\* zero finder and the error.
ReadCrimesFails ==
    /\ pc = "start"
    /\ calls = <<>>
    /\ err' = "io"
    /\ pc' = "failed"
    /\ UNCHANGED <<procs, file, rows, i, locations, heap, finder, calls, result>>

\* AppendCrime that replaces the list instead of appending to it.
AppendCrimeReplaces(hp, location, crime) ==
    [hp EXCEPT ![location].Crimes = <<crime>>]

\* The heap after location.Crimes = append(location.Crimes, crime).
AppendCrime(hp, location, crime) ==
    [hp EXCEPT ![location].Crimes = Append(@, crime)]

\* loadStep that records a crime with id 0 for a row whose id does not parse.
loadStepZeroId(locs, hp, types, row) ==
    LET got == getOrCreateFromCsvRow(locs, hp, row)
        id  == ParseInt(row.id)
    IN  IF ~got.ok THEN [locs |-> locs, heap |-> hp, types |-> types]
        ELSE [locs  |-> got.locs,
              heap  |-> [got.heap EXCEPT ![got.location].Crimes =
                            Append(@, [Id |-> id.n, Date |-> row.date,
                                       Time |-> row.time, Type |-> row.type])],
              types |-> IF \E k \in 1..Len(types) : types[k] = row.type THEN types
                        ELSE Append(types, row.type)]

\* loadStep that parses the id before it looks the location up.
loadStepIdFirst(locs, hp, types, row) ==
    LET got == getOrCreateFromCsvRow(locs, hp, row)
        id  == ParseInt(row.id)
    IN  IF ~id.ok \/ ~got.ok THEN [locs |-> locs, heap |-> hp, types |-> types]
        ELSE [locs  |-> got.locs,
              heap  |-> [got.heap EXCEPT ![got.location].Crimes =
                            Append(@, [Id |-> id.n, Date |-> row.date,
                                       Time |-> row.time, Type |-> row.type])],
              types |-> IF \E k \in 1..Len(types) : types[k] = row.type THEN types
                        ELSE Append(types, row.type)]

\* The body of loadFromCsv's loop for one row: the table, the objects and the
\* finder's CrimeTypes after it.  Either error ends the iteration ("continue"),
\* the second after the row's location was got or created.
loadStep(locs, hp, types, row) ==
    LET got == getOrCreateFromCsvRow(locs, hp, row)
        id  == ParseInt(row.id)
        crimeType == row.type
    IN  IF ~got.ok THEN [locs |-> locs, heap |-> hp, types |-> types]
        ELSE IF ~id.ok THEN [locs |-> got.locs, heap |-> got.heap, types |-> types]
        ELSE [locs  |-> got.locs,
              heap  |-> AppendCrime(got.heap, got.location,
                                    Crime(id.n, row.date, row.time, crimeType)),
              types |-> IF Contains(types, crimeType) THEN types
                        ELSE Append(types, crimeType)]

\* One iteration of loadFromCsv's loop, over rows[i].
LoadRow ==
    /\ pc = "load"
    /\ i <= Len(rows)
    /\ LET after == loadStep(locations, heap, finder.CrimeTypes, rows[i])
       IN  /\ locations' = after.locs
           /\ heap' = after.heap
           /\ finder' = [finder EXCEPT !.CrimeTypes = after.types]
    /\ i' = i + 1
    /\ UNCHANGED <<procs, file, pc, rows, err, calls, result>>

\* The end of loadFromCsv: the table becomes the finder's, nil is returned.
LoadReturn ==
    /\ pc = "load"
    /\ i > Len(rows)
    /\ finder' = [finder EXCEPT !.LocationLookup = locations]
    /\ pc' = "index"
    /\ UNCHANGED <<procs, file, rows, i, locations, heap, err, calls, result>>

\* MakeNodes that makes no node for the first location ranged over.
MakeNodesSkipsFirst(lookup, hp, order) ==
    [k \in 1..(Len(order) - 1) |-> NodeOf(hp[lookup[order[k + 1]]])]

\* The nodes NewCrimeFinder makes, ranging over the table in the given order.
MakeNodes(lookup, hp, order) == [k \in DOMAIN order |-> NodeOf(hp[lookup[order[k]]])]

\* The rest of NewCrimeFinder: one node per location, in the order the map
\* happens to be ranged over, then the tree.
BuildIndex ==
    /\ pc = "index"
    /\ \E order \in RangeOrders(DOMAIN finder.LocationLookup) :
         finder' = [finder EXCEPT
                      !.Tree = BuildTree(MakeNodes(finder.LocationLookup, heap, order))]
    /\ err' = "nil"
    /\ pc' = "ready"
    /\ UNCHANGED <<procs, file, rows, i, locations, heap, calls, result>>

\* FindNear that leaves the result's Query at the zero point.
FindNearZeroQuery(query) ==
    /\ pc \in {"ready", "failed"}
    /\ IF ~finder.Tree.built
       THEN result' = [NoResult EXCEPT !.Query = query, !.panic = TRUE]
       ELSE LET results == FindRange(finder.Tree, QueryRanges(query))
            IN  result' = [set       |-> TRUE,
                           Query     |-> Point(Float(0), Float(0)),
                           Locations |-> LookupNodes(results, finder.LocationLookup),
                           ok        |-> TRUE,
                           all       |-> FALSE,
                           panic     |-> FALSE,
                           nilList   |-> FALSE]
    /\ UNCHANGED <<procs, file, pc, rows, i, locations, heap, finder, err, calls>>

\* CrimeFinder.FindNear(query) on the finder NewCrimeFinder returned, with or
\* without an error.  finder.Tree.FindRange on the nil Tree of a finder that was
\* not indexed reads through a nil pointer: the call panics before FindNear
\* can return anything.
FindNear(query) ==
    /\ pc \in {"ready", "failed"}
    /\ IF ~finder.Tree.built
       THEN result' = [NoResult EXCEPT !.Query = query, !.panic = TRUE]
       ELSE LET results == FindRange(finder.Tree, QueryRanges(query))
            IN  result' = [set       |-> TRUE,
                           Query     |-> query,
                           Locations |-> LookupNodes(results, finder.LocationLookup),
                           ok        |-> TRUE,
                           all       |-> FALSE,
                           panic     |-> FALSE,
                           nilList   |-> FALSE]
    /\ UNCHANGED <<procs, file, pc, rows, i, locations, heap, finder, err, calls>>

Next ==
    \/ ReadCrimes
    \/ ReadCrimesFails
    \/ LoadRow
    \/ LoadReturn
    \/ BuildIndex
    \/ \E query \in Queries : FindNear(query)

Spec == Init /\ [][Next]_vars

\* A caller's own table, as in the package's tests: getOrCreateFromCsvRow
\* called directly, row after row.
InitLookup ==
    /\ file = <<>>
    /\ pc = "start"
    /\ rows = <<>>
    /\ i = 1
    /\ locations = EmptyLookup
    /\ heap = <<>>
    /\ finder = ZeroFinder
    /\ err = "none"
    /\ calls = <<>>
    /\ result = NoResult
    /\ procs = NoProcs

CallGetOrCreate(row) ==
    /\ pc = "start"
    /\ Len(calls) < MaxCalls
    /\ LET got == getOrCreateFromCsvRow(locations, heap, row)
       IN  /\ locations' = got.locs
           /\ heap' = got.heap
           /\ calls' = Append(calls, [row |-> row, location |-> got.location, ok |-> got.ok])
    /\ UNCHANGED <<procs, file, pc, rows, i, finder, err, result>>

NextLookup == \E row \in CallRows : CallGetOrCreate(row)

SpecLookup == InitLookup /\ [][NextLookup]_vars

\* ================================================================ claims

\* The values of a table: the locations it holds.
Held(lookup) == {lookup[k] : k \in DOMAIN lookup}

\* How many elements of sequence s are x.
Occurrences(s, x) == Cardinality({k \in 1..Len(s) : s[k] = x})

\* Whether both coordinate columns of a row parse.
Parseable(row) == ParseFloat(row.lat).ok /\ ParseFloat(row.lng).ok

\* The coordinate a parseable row names: the float64 pair, signs included.
CoordinateOf(row) == Point(ParseFloat(row.lat).f, ParseFloat(row.lng).f)

\* The distance of two float64, in units.
Gap(a, b) == IF Num(a) < Num(b) THEN Num(b) - Num(a) ELSE Num(a) - Num(b)

StrictlyInside(p, q) ==
    /\ Gap(p.Lat, q.Lat) < HALF_MILE_LAT
    /\ Gap(p.Lng, q.Lng) < HALF_MILE_LNG

\* Inside the closed box.
InClosedBox(p, q) ==
    /\ Gap(p.Lat, q.Lat) <= HALF_MILE_LAT
    /\ Gap(p.Lng, q.Lng) <= HALF_MILE_LNG

\* C2: FindNear(q) returns every location of the table strictly inside q's box
\* exactly once, returns only locations of the table, none of them outside the
\* closed box, and none twice.
C2_FindNearIsTheFilter ==
    result.set =>
        /\ \A l \in Held(finder.LocationLookup) :
               StrictlyInside(heap[l].Point, result.Query)
                   => Occurrences(result.Locations, l) = 1
        /\ \A k \in 1..Len(result.Locations) :
               /\ result.Locations[k] \in Held(finder.LocationLookup)
               /\ InClosedBox(heap[result.Locations[k]].Point, result.Query)
               /\ Occurrences(result.Locations, result.Locations[k]) = 1

\* C2's case: a tree of three nodes, a location inside the box that was
\* returned and one outside that was not.
C2_Witness ==
    /\ result.set
    /\ Cardinality(Held(finder.LocationLookup)) = 3
    /\ \E l \in Held(finder.LocationLookup) :
           /\ StrictlyInside(heap[l].Point, result.Query)
           /\ Occurrences(result.Locations, l) = 1
    /\ \E l \in Held(finder.LocationLookup) :
           /\ ~InClosedBox(heap[l].Point, result.Query)
           /\ Occurrences(result.Locations, l) = 0

\* ---- C3
\* On an edge of the box: exactly the half-width away in one dimension, and not
\* outside in the other.
OnEdge(p, q) ==
    \/ Gap(p.Lat, q.Lat) = HALF_MILE_LAT /\ Gap(p.Lng, q.Lng) <= HALF_MILE_LNG
    \/ Gap(p.Lng, q.Lng) = HALF_MILE_LNG /\ Gap(p.Lat, q.Lat) <= HALF_MILE_LAT

\* One unit past an edge.
OnePast(p, q) ==
    \/ Gap(p.Lat, q.Lat) = HALF_MILE_LAT + 1
    \/ Gap(p.Lng, q.Lng) = HALF_MILE_LNG + 1

\* C3: the box is inclusive: a location on an edge of the query's box is in the
\* result, a location one unit past an edge is not.
C3_InclusiveBoundary ==
    result.set =>
        \A l \in Held(finder.LocationLookup) :
            /\ OnEdge(heap[l].Point, result.Query) => Occurrences(result.Locations, l) = 1
            /\ OnePast(heap[l].Point, result.Query) => Occurrences(result.Locations, l) = 0

\* C3's case: a location on the latitude edge and one on the longitude edge
\* were returned, and a location one unit past an edge was left out.
C3_Witness ==
    /\ result.set
    /\ \E l \in Held(finder.LocationLookup) :
           /\ Gap(heap[l].Point.Lat, result.Query.Lat) = HALF_MILE_LAT
           /\ Occurrences(result.Locations, l) = 1
    /\ \E l \in Held(finder.LocationLookup) :
           /\ Gap(heap[l].Point.Lng, result.Query.Lng) = HALF_MILE_LNG
           /\ Occurrences(result.Locations, l) = 1
    /\ \E l \in Held(finder.LocationLookup) :
           /\ OnePast(heap[l].Point, result.Query)
           /\ Occurrences(result.Locations, l) = 0

\* ---- C4
\* Radius of the earth, in miles (the tests' EARTH_RADIUS).
EARTH_RADIUS == 3959

\* Half a mile of great circle in units of 1e-5 degree, rounded up: an arc of u
\* units is EARTH_RADIUS * u * 1e-5 * pi / 180 miles long, so half a mile is
\* 900000000 / (1000 * pi * EARTH_RADIUS) units, 723.6 of them.
HalfMileUnits == (900000000 \div ((3141 * EARTH_RADIUS) \div 10)) + 1

\* A consequence of GreatCircleDistance(p, q) <= 0.5 for points no farther than
\* 45.57 degrees from the equator, where the product of the two cosines is at
\* least 0.49: the haversine distance is at least
\* EARTH_RADIUS * sqrt(dLat^2 + 0.49 * dLon^2) (in radians), up to a factor
\* of 1 - 1e-8 for angles this small.
WithinHalfMile(p, q) ==
    100 * Gap(p.Lat, q.Lat) * Gap(p.Lat, q.Lat) + 49 * Gap(p.Lng, q.Lng) * Gap(p.Lng, q.Lng)
        <= 100 * HalfMileUnits * HalfMileUnits

\* C4: every location FindNear(q) returns is no more than half a mile of great
\* circle from q.
C4_WithinHalfMile ==
    result.set =>
        \A k \in 1..Len(result.Locations) :
            WithinHalfMile(heap[result.Locations[k]].Point, result.Query)

\* ---- C5
\* The coordinates of the nodes of a subtree, each node once.
RECURSIVE SubtreeNodes(_)
SubtreeNodes(t) ==
    IF t.nil THEN <<>>
    ELSE SubtreeNodes(t.left) \o <<t.Coordinates>> \o SubtreeNodes(t.right)

\* C5: once NewCrimeFinder has returned, every node of Tree, keyed again with
\* GetCoordinateKey, is a key of LocationLookup and names a location whose
\* Point is exactly the node's coordinate, and every location of
\* LocationLookup has exactly one node in Tree.
C5_TreeAndTableAgree ==
    pc = "ready" =>
        LET nodes == SubtreeNodes(finder.Tree.root)
        IN  /\ finder.Tree.built
            /\ \A k \in 1..Len(nodes) :
                   LET key == FormatV(nodes[k][1]) \o <<",">> \o FormatV(nodes[k][2])
                   IN  /\ key \in DOMAIN finder.LocationLookup
                       /\ heap[finder.LocationLookup[key]].Point.Lat = nodes[k][1]
                       /\ heap[finder.LocationLookup[key]].Point.Lng = nodes[k][2]
            /\ \A l \in Held(finder.LocationLookup) :
                   Occurrences(nodes, <<heap[l].Point.Lat, heap[l].Point.Lng>>) = 1
            /\ result.set =>
                   Len(result.Locations)
                       = Len(FindRange(finder.Tree, QueryRanges(result.Query)))

\* C5's case: a tree of three nodes over a table of three locations, queried.
C5_Witness ==
    /\ pc = "ready"
    /\ Len(SubtreeNodes(finder.Tree.root)) = 3
    /\ Cardinality(DOMAIN finder.LocationLookup) = 3
    /\ result.set
    /\ Len(result.Locations) >= 2

\* ---- C6
\* The crimes loadFromCsv should have put at coordinate p: one per row at p
\* whose id parses, in row order.
RECURSIVE CrimesAt(_, _)
CrimesAt(rs, p) ==
    IF rs = <<>> THEN <<>>
    ELSE LET row == Head(rs)
         IN  (IF CoordinateOf(row) = p /\ ParseInt(row.id).ok
              THEN <<[Id |-> ParseInt(row.id).n, Date |-> row.date,
                      Time |-> row.time, Type |-> row.type]>>
              ELSE <<>>)
             \o CrimesAt(Tail(rs), p)

\* The number of crimes in the objects of hp.
RECURSIVE TotalCrimes(_)
TotalCrimes(hp) ==
    IF hp = <<>> THEN 0 ELSE Len(Head(hp).Crimes) + TotalCrimes(Tail(hp))

\* Whether every row's id parses.
AllIdsParse(rs) == \A k \in 1..Len(rs) : ParseInt(rs[k].id).ok

\* C6: when the coordinates and the id of every row given to loadFromCsv
\* parse, then after loadFromCsv each location's Crimes holds one Crime per row
\* at its coordinate, in row order, with the row's id, date, time and category,
\* and the crimes of all locations are as many as the rows.
C6_OneCrimePerRow ==
    (pc \in {"index", "ready"} /\ AllIdsParse(rows)) =>
        /\ \A l \in Held(finder.LocationLookup) :
               heap[l].Crimes = CrimesAt(rows, heap[l].Point)
        /\ Held(finder.LocationLookup) = 1..Len(heap)
        /\ TotalCrimes(heap) = Len(rows)

\* C6's case: three rows at one coordinate gave one location with three crimes.
C6_Witness ==
    /\ pc = "ready"
    /\ AllIdsParse(rows)
    /\ Len(rows) = 3
    /\ Cardinality(DOMAIN finder.LocationLookup) = 1
    /\ Len(heap[1].Crimes) = 3
    /\ rows[1].lat # rows[2].lat

\* ---- C7
\* A row with a coordinate column that is not empty and does not parse.
Malformed(row) ==
    \/ row.lat # <<>> /\ ~ParseFloat(row.lat).ok
    \/ row.lng # <<>> /\ ~ParseFloat(row.lng).ok

HasMalformed(rs) == \E k \in 1..Len(rs) : Malformed(rs[k])

\* C7 as claimed: a file with a malformed coordinate never gives a successful
\* build (NewCrimeFinder never returns a nil error and an indexed finder).
C7_MalformedAbortsBuild ==
    HasMalformed(file) => ~(pc = "ready" /\ err = "nil" /\ finder.Tree.built)

\* C7, amended: readCrimes drops every row with a coordinate column that does
\* not parse and passes the others on in file order; the build then succeeds
\* with a nil error and an index over exactly the coordinates of the rows that
\* parse; the only failure of the build is that of reading the file.
C7_MalformedRowsDropped ==
    /\ pc \in {"load", "index", "ready"} => rows = SelectSeq(file, Parseable)
    /\ pc = "failed" => err = "io" /\ ~finder.Tree.built
    /\ pc = "ready" =>
          /\ err = "nil"
          /\ finder.Tree.built
          /\ {heap[l].Point : l \in Held(finder.LocationLookup)}
                 = {CoordinateOf(file[k]) : k \in {n \in 1..Len(file) : Parseable(file[n])}}
          /\ Len(SubtreeNodes(finder.Tree.root)) = Cardinality(Held(finder.LocationLookup))

\* C7's case: a file of three rows, one of them malformed, was built and
\* queried, and the query found a location of the other rows.
C7_Witness ==
    /\ pc = "ready"
    /\ err = "nil"
    /\ Len(file) = 3
    /\ HasMalformed(file)
    /\ Len(rows) = 2
    /\ result.set
    /\ Len(result.Locations) >= 1

\* ---- C8
\* The last direct call.
LastCall(cs) == cs[Len(cs)]

\* C8: a direct call of getOrCreateFromCsvRow with a row whose latitude or
\* longitude does not parse returns a nil location and an error, and leaves the
\* table and every CrimeLocation as they were.
C8_BadRowLeavesTable ==
    [][(calls' # calls /\ ~Parseable(LastCall(calls').row))
           => /\ ~LastCall(calls').ok
              /\ LastCall(calls').location = NilLocation
              /\ locations' = locations
              /\ heap' = heap]_vars

\* C8's case: a table with a location in it, then a call with a bad longitude
\* and a call with a bad latitude, both refused.
C8_Witness ==
    /\ Len(calls) = 3
    /\ calls[1].ok
    /\ ParseFloat(calls[2].row.lat).ok /\ ~ParseFloat(calls[2].row.lng).ok
    /\ ~ParseFloat(calls[3].row.lat).ok /\ ParseFloat(calls[3].row.lng).ok
    /\ ~calls[2].ok /\ ~calls[3].ok
    /\ Cardinality(DOMAIN locations) = 1

C10_BadIdRowKeepsItsCoordinate ==
    pc = "ready" =>
        \A k \in 1..Len(file) :
            (Parseable(file[k]) /\ ~ParseInt(file[k].id).ok) =>
                LET p == CoordinateOf(file[k])
                IN  /\ Occurrences(SubtreeNodes(finder.Tree.root), <<p.Lat, p.Lng>>) = 1
                    /\ \E l \in Held(finder.LocationLookup) :
                           /\ heap[l].Point = p
                           /\ (result.set /\ StrictlyInside(p, result.Query))
                                  => Occurrences(result.Locations, l) = 1

\* C10's case: a location whose only row has a bad id, so without a crime, was
\* returned by FindNear beside a location with a crime.
C10_Witness ==
    /\ pc = "ready"
    /\ result.set
    /\ \E k \in 1..Len(result.Locations) :
           /\ heap[result.Locations[k]].Crimes = <<>>
           /\ StrictlyInside(heap[result.Locations[k]].Point, result.Query)
    /\ \E k \in 1..Len(result.Locations) : heap[result.Locations[k]].Crimes # <<>>

\* ============================================= the older CrimeTracker build

\* The rows of the smaller specifications; their texts are sequences of
\* characters.  Two rows share a coordinate and a third shares their latitude,
\* one has an id that is no integer, one has a quote in its type and one a
\* backslash in its date, one has no latitude and one no longitude.
QueryRows ==
    { Row(<<"7">>, <<"1", "/", "1">>, <<"4", ":", "3", "0">>, <<"B", "u", "r">>, <<"8", "0", "0">>, <<"-", "8", "0", "0">>),
      Row(<<"8">>, <<"1", "/", "2">>, <<"5", ":", "0", "0">>, <<"A", "\"", "B">>, <<"+", "8", "0", "0">>, <<"-", "0", "8", "0", "0">>),
      Row(<<"9">>, <<"1", "\\", "3">>, <<"6", ":", "0", "0">>, <<"B", "u", "r">>, <<"8", "0", "0">>, <<"-", "7", "6">>),
      Row(<<"x", "7">>, <<"1", "/", "4">>, <<"7", ":", "0", "0">>, <<"R", "o", "b">>, <<"8", "6">>, <<"-", "1", "5", "2", "4">>),
      Row(<<"5">>, <<"1", "/", "5">>, <<"8", ":", "0", "0">>, <<"R", "o", "b">>, <<>>, <<"-", "8", "0", "0">>),
      Row(<<"6">>, <<"1", "/", "6">>, <<"9", ":", "0", "0">>, <<"A", "r", "s">>, <<"8", "0", "0">>, <<>>) }

\* fmt's rendering of a float64 under the verb %s, which is no verb of floats.
BadVerb(f) == <<"%", "!", "s", "(", "f", "l", "o", "a", "t", "6", "4", "=">> \o FormatV(f) \o <<")">>

\* getCoordKey: fmt.Sprintf("%s,%s", x, y).
getCoordKey(x, y) == BadVerb(x) \o <<",">> \o BadVerb(y)

\* rawCoords: both coordinates of a row, or the first error.
rawCoords(row) ==
    LET lat == floatForCol(row.lat)
        lng == floatForCol(row.lng)
    IN  IF ~lat.ok THEN [ok |-> FALSE, coords |-> <<>>]
        ELSE IF ~lng.ok THEN [ok |-> FALSE, coords |-> <<>>]
        ELSE [ok |-> TRUE, coords |-> <<lat.f, lng.f>>]

\* Locations.getOrCreateFromRow on table locs with objects hp.
getOrCreateFromRow(locs, hp, row) ==
    LET c == rawCoords(row)
    IN  IF ~c.ok
        THEN [locs |-> locs, heap |-> hp, location |-> NilLocation, ok |-> FALSE]
        ELSE LET key == getCoordKey(c.coords[1], c.coords[2])
             IN  IF key \in DOMAIN locs
                 THEN [locs |-> locs, heap |-> hp, location |-> locs[key], ok |-> TRUE]
                 ELSE LET location == [Point  |-> Point(c.coords[1], c.coords[2]),
                                       Crimes |-> <<>>]
                      IN  [locs     |-> (key :> (Len(hp) + 1)) @@ locs,
                           heap     |-> Append(hp, location),
                           location |-> Len(hp) + 1,
                           ok       |-> TRUE]

\* CrimeTypes.GetOrCreate has a value receiver: its append grows the method's
\* own copy of the slice, and the caller's CrimeTypes stays as it was.
GetOrCreate(types, crimeType) == [types |-> types, crimeType |-> crimeType]

\* The body of parseCrimes' loop for one row: the table and the objects after
\* it, and whether the loop goes on.  Either error returns the table built so
\* far together with the error.
parseStep(locs, hp, types, row) ==
    LET got == getOrCreateFromRow(locs, hp, row)
        id  == ParseInt(row.id)
        crimeType == GetOrCreate(types, row.type).crimeType
    IN  IF ~got.ok THEN [locs |-> locs, heap |-> hp, ok |-> FALSE]
        ELSE IF ~id.ok THEN [locs |-> got.locs, heap |-> got.heap, ok |-> FALSE]
        ELSE [locs |-> got.locs,
              heap |-> AppendCrime(got.heap, got.location,
                                   Crime(id.n, row.date, row.time, crimeType)),
              ok   |-> TRUE]

\* The start of a build over the rows of the smaller specifications.  The
\* variable finder holds the CrimeTracker in the CrimeTracker's build, its
\* field LocationLookup being the tracker's Locations.
InitQuery ==
    /\ file \in SeqsUpTo(QueryRows, MaxRows)
    /\ pc = "start"
    /\ rows = <<>>
    /\ i = 1
    /\ locations = EmptyLookup
    /\ heap = <<>>
    /\ finder = ZeroFinder
    /\ err = "none"
    /\ calls = <<>>
    /\ result = NoResult
    /\ procs = NoProcs

\* One iteration of parseCrimes' loop, over rows[i].  When it returns an error,
\* NewCrimeTracker has already stored the table parseCrimes returned in
\* tracker.Locations, and returns the tracker with the error.
ParseRow ==
    /\ pc = "load"
    /\ i <= Len(rows)
    /\ LET after == parseStep(locations, heap, finder.CrimeTypes, rows[i])
       IN  /\ locations' = after.locs
           /\ heap' = after.heap
           /\ IF after.ok
              THEN /\ i' = i + 1
                   /\ UNCHANGED <<pc, finder, err>>
              ELSE /\ finder' = [finder EXCEPT !.LocationLookup = after.locs]
                   /\ err' = "parse"
                   /\ pc' = "failed"
                   /\ UNCHANGED i
    /\ UNCHANGED <<procs, file, rows, calls, result>>

\* The end of parseCrimes: NewCrimeTracker stores the table.
ParseReturn ==
    /\ pc = "load"
    /\ i > Len(rows)
    /\ finder' = [finder EXCEPT !.LocationLookup = locations]
    /\ pc' = "index"
    /\ UNCHANGED <<procs, file, rows, i, locations, heap, err, calls, result>>

\* The rest of NewCrimeTracker: one node per point of AllPoints, which ranges
\* over the map, then the tree; CrimeTypes is set to an empty list.
TrackerIndex ==
    /\ pc = "index"
    /\ \E order \in RangeOrders(DOMAIN finder.LocationLookup) :
         finder' = [finder EXCEPT
                      !.Tree = BuildTree(MakeNodes(finder.LocationLookup, heap, order)),
                      !.CrimeTypes = <<>>]
    /\ err' = "nil"
    /\ pc' = "ready"
    /\ UNCHANGED <<procs, file, rows, i, locations, heap, calls, result>>

NextTracker ==
    \/ ReadCrimes
    \/ ReadCrimesFails
    \/ ParseRow
    \/ ParseReturn
    \/ TrackerIndex

SpecTracker == InitQuery /\ [][NextTracker]_vars

\* ---------------------------------------------------------------- C11

\* C11: whenever a build returns an error, the object it returns exposes no
\* partially built state: its table is empty, its Tree is nil and its
\* CrimeTypes is empty.
C11_NoPartialStateOnError ==
    pc = "failed" =>
        /\ finder.LocationLookup = EmptyLookup
        /\ ~finder.Tree.built
        /\ finder.CrimeTypes = <<>>

\* ---------------------------------------------------------------- C12

\* FindNear was called on the finder, and its Tree was nil.
CalledUnbuilt == ~finder.Tree.built /\ result # NoResult

\* C12: FindNear on a finder whose index was not built returns an error to the
\* caller: it does not crash and it returns no result.
C12_IndexNotBuilt ==
    CalledUnbuilt => ~result.panic /\ result.set /\ ~result.ok /\ result.Locations = <<>>

\* ================================================= queries on a built finder

\* The nil *Point.
NilPoint == [nil |-> TRUE]

\* Locations that appends to a list made with one nil entry per location.
LocationsPrefilled(lookup, order) ==
    [k \in DOMAIN order |-> NilLocation] \o [k \in DOMAIN order |-> lookup[order[k]]]

\* CrimeFinder.Locations: the table's locations in the order the map happens
\* to be ranged over.
Locations(lookup, order) == [k \in DOMAIN order |-> lookup[order[k]]]

\* All that hands its locations over: the finder's table is empty afterwards.
AllDrainsTable ==
    /\ pc \in {"ready", "failed"}
    /\ \E order \in RangeOrders(DOMAIN finder.LocationLookup) :
         result' = [set       |-> FALSE,
                    Query     |-> NilPoint,
                    Locations |-> Locations(finder.LocationLookup, order),
                    ok        |-> TRUE,
                    all       |-> TRUE,
                    panic     |-> FALSE,
                    nilList   |-> FALSE]
    /\ finder' = [finder EXCEPT !.LocationLookup = EmptyLookup]
    /\ UNCHANGED <<procs, file, pc, rows, i, locations, heap, err, calls>>

\* CrimeFinder.All: a SearchResult with the finder's locations and no Query.
All ==
    /\ pc \in {"ready", "failed"}
    /\ \E order \in RangeOrders(DOMAIN finder.LocationLookup) :
         result' = [set       |-> FALSE,
                    Query     |-> NilPoint,
                    Locations |-> Locations(finder.LocationLookup, order),
                    ok        |-> TRUE,
                    all       |-> TRUE,
                    panic     |-> FALSE,
                    nilList   |-> FALSE]
    /\ UNCHANGED <<procs, file, pc, rows, i, locations, heap, finder, err, calls>>

\* The query points of the smaller specifications: those of Queries, a point
\* far from every row, and points with a coordinate that is no number.
QueryPoints ==
    Queries \cup { Point(Float(5000), Float(5000)),
                   Point(NaN, Float(0 - 800)),
                   Point(Float(800), PosInf),
                   Point(NegInf, Float(0 - 800)) }

NextQuery ==
    \/ ReadCrimes
    \/ ReadCrimesFails
    \/ LoadRow
    \/ LoadReturn
    \/ BuildIndex
    \/ \E query \in QueryPoints : FindNear(query)
    \/ All

SpecQuery == InitQuery /\ [][NextQuery]_vars

\* ---------------------------------------------------------------- C13

\* FindNear returned a result for a query with a coordinate that is no number.
NonFiniteQuery ==
    result.set /\ (~IsFinite(result.Query.Lat) \/ ~IsFinite(result.Query.Lng))

\* C13: FindNear with a query point whose latitude or longitude is NaN or
\* infinite returns an error and no locations.
C13_InvalidQueryPoint ==
    NonFiniteQuery => ~result.ok /\ result.Locations = <<>>

\* ============================================ a finder assembled by a caller

\* A caller sets the finder's exported fields itself, as the package's test of
\* the fields does: the Tree over the nodes of every location of its table,
\* LocationLookup a table that holds some of them.
AssembleFinder ==
    /\ pc = "index"
    /\ \E kept \in SUBSET (DOMAIN locations) :
       \E order \in RangeOrders(DOMAIN locations) :
         finder' = [finder EXCEPT
                      !.LocationLookup = [k \in kept |-> locations[k]],
                      !.Tree = BuildTree(MakeNodes(locations, heap, order))]
    /\ err' = "nil"
    /\ pc' = "ready"
    /\ UNCHANGED <<procs, file, rows, i, locations, heap, calls, result>>

NextAssembled ==
    \/ ReadCrimes
    \/ ReadCrimesFails
    \/ LoadRow
    \/ LoadReturn
    \/ AssembleFinder
    \/ \E query \in Queries : FindNear(query)

SpecAssembled == InitQuery /\ [][NextAssembled]_vars

\* ---------------------------------------------------------------- C14

\* The nodes the range search returns for the last query.
Found == FindRange(finder.Tree, QueryRanges(result.Query))

\* Whether the table holds a node's coordinate key.
Known(node) == GetCoordinateKey(node[1], node[2]) \in DOMAIN finder.LocationLookup

\* The nodes found whose key the table holds, in the order they were found.
KnownFound == SelectSeq(Found, Known)

\* C14: a node whose coordinate key the table lacks is left out of the result;
\* FindNear still returns a nil error and every other matching location, in
\* the order the nodes were found.
C14_UnknownNodeSkipped ==
    result.set =>
        /\ result.ok
        /\ Len(result.Locations) = Len(KnownFound)
        /\ \A k \in 1..Len(KnownFound) :
             result.Locations[k] =
                 finder.LocationLookup[GetCoordinateKey(KnownFound[k][1], KnownFound[k][2])]

\* A query found a node the table lacks before a node the table holds.
C14_Witness ==
    /\ result.set
    /\ result.Locations # <<>>
    /\ \E a, b \in 1..Len(Found) : a < b /\ ~Known(Found[a]) /\ Known(Found[b])

\* ================================================================== ToJson

\* fmt's %v of an int64.
IntText(n) == IF n < 0 THEN <<"-">> \o NatText(0 - n) ELSE NatText(n)

\* ToJson's test for the comma after element k of total (k counted from 1).
\* This one is the older Crimes.ToJson's, which puts a comma after the only
\* element of a list of one.
needsCommaOlder(k, total) == ~(total > 1 /\ k = total)

\* ToJson's test for the comma after element k of total (k counted from 1):
\* (total > 1) && !isLast.
needsComma(k, total) == (total > 1) /\ ~(k = total)

\* ToJson's line for one crime: the four fields under %v, the strings as they
\* are.
crimeJson(crime) ==
    <<"{", "\"", "i", "d", "\"", ":">> \o IntText(crime.Id) \o <<",", "\"", "d", "a", "t", "e", "\"", ":", "\"">> \o crime.Date
        \o <<"\"", ",", "\"", "t", "i", "m", "e", "\"", ":", "\"">> \o crime.Time \o <<"\"", ",", "\"", "t", "y", "p", "e", "\"", ":", "\"">> \o crime.Type \o <<"\"", "}">>

\* ToJson's inner loop, from crime k of the list on.
RECURSIVE crimesJson(_, _)
crimesJson(crimes, k) ==
    IF k > Len(crimes) THEN <<>>
    ELSE crimeJson(crimes[k])
         \o (IF needsComma(k, Len(crimes)) THEN <<",">> ELSE <<>>)
         \o crimesJson(crimes, k + 1)

\* ToJson's outer loop, from location x of the list on.
RECURSIVE locationsJson(_, _, _)
locationsJson(locs, hp, x) ==
    IF x > Len(locs) THEN <<>>
    ELSE LET location == hp[locs[x]]
         IN  <<"{", "\"", "p", "o", "i", "n", "t", "\"", ":", "{", "\"", "l", "a", "t", "\"", ":">> \o FormatV(location.Point.Lat)
             \o <<",", "\"", "l", "n", "g", "\"", ":">> \o FormatV(location.Point.Lng) \o <<"}", ",">>
             \o <<"\"", "c", "r", "i", "m", "e", "s", "\"", ":", "[">>
             \o crimesJson(location.Crimes, 1)
             \o <<"]", "}">>
             \o (IF needsComma(x, Len(locs)) THEN <<",">> ELSE <<>>)
             \o locationsJson(locs, hp, x + 1)

\* ToJson that writes null for a list of no locations.
ToJsonNullWhenEmpty(r, hp) ==
    IF r.Query = NilPoint THEN [panic |-> TRUE, bytes |-> <<>>]
    ELSE [panic |-> FALSE,
          bytes |-> <<"{", "\"", "q", "u", "e", "r", "y", "\"", ":", "{", "\"", "l", "a", "t", "\"", ":">> \o FormatV(r.Query.Lat)
                    \o <<",", "\"", "l", "n", "g", "\"", ":">> \o FormatV(r.Query.Lng)
                    \o (IF r.Locations = <<>> THEN <<"}", ",", "\"", "l", "o", "c", "a", "t", "i", "o", "n", "s", "\"", ":", "n", "u", "l", "l", "}">>
                        ELSE <<"}", ",", "\"", "l", "o", "c", "a", "t", "i", "o", "n", "s", "\"", ":", "[">>
                             \o locationsJson(r.Locations, hp, 1) \o <<"]", "}">>)]

\* SearchResult.ToJson on a result whose locations are objects of hp: the bytes
\* returned (the error returned is always nil), or a panic when r.Query, which
\* the first Sprintf reads through, is nil.
ToJson(r, hp) ==
    IF r.Query = NilPoint THEN [panic |-> TRUE, bytes |-> <<>>]
    ELSE [panic |-> FALSE,
          bytes |-> <<"{", "\"", "q", "u", "e", "r", "y", "\"", ":", "{", "\"", "l", "a", "t", "\"", ":">> \o FormatV(r.Query.Lat)
                    \o <<",", "\"", "l", "n", "g", "\"", ":">> \o FormatV(r.Query.Lng)
                    \o <<"}", ",", "\"", "l", "o", "c", "a", "t", "i", "o", "n", "s", "\"", ":", "[">>
                    \o locationsJson(r.Locations, hp, 1)
                    \o <<"]", "}">>]

\* ---------------------------------------------------------------- C15

\* The JSON text of a result with no locations for a query.
EmptyJson(query) ==
    <<"{", "\"", "q", "u", "e", "r", "y", "\"", ":", "{", "\"", "l", "a", "t", "\"", ":">> \o FormatV(query.Lat) \o <<",", "\"", "l", "n", "g", "\"", ":">> \o FormatV(query.Lng)
        \o <<"}", ",", "\"", "l", "o", "c", "a", "t", "i", "o", "n", "s", "\"", ":", "[", "]", "}">>

\* C15: FindNear at a point with no location in the closed box returns a nil
\* error and an empty list that is not nil, and ToJson of that result is
\* exactly {"query":{"lat":..,"lng":..},"locations":[]}.
C15_EmptyResult ==
    (/\ result.set
     /\ IsFinite(result.Query.Lat) /\ IsFinite(result.Query.Lng)
     /\ \A l \in Held(finder.LocationLookup) : ~InClosedBox(heap[l].Point, result.Query))
    => /\ result.ok
       /\ result.Locations = <<>>
       /\ ~result.nilList
       /\ ~ToJson(result, heap).panic
       /\ ToJson(result, heap).bytes = EmptyJson(result.Query)

\* FindNear found nothing on an index built from rows.
C15_Witness ==
    /\ result.set
    /\ IsFinite(result.Query.Lat) /\ IsFinite(result.Query.Lng)
    /\ Held(finder.LocationLookup) # {}
    /\ \A l \in Held(finder.LocationLookup) : ~InClosedBox(heap[l].Point, result.Query)
    /\ ToJson(result, heap).bytes = EmptyJson(result.Query)

\* ---------------------------------------------------------------- C16

\* The texts of a list joined by one comma between consecutive texts.
RECURSIVE Join(_)
Join(texts) ==
    IF texts = <<>> THEN <<>>
    ELSE IF Len(texts) = 1 THEN texts[1]
    ELSE texts[1] \o <<",">> \o Join(Tail(texts))

\* A JSON member "name":text, and a JSON string of a text taken as it is.
Member(name, text) == <<"\"">> \o name \o <<"\"", ":">> \o text

Quoted(text) == <<"\"">> \o text \o <<"\"">>

\* The object of a point.
PointShape(p) ==
    <<"{">> \o Member(<<"l", "a", "t">>, FormatV(p.Lat)) \o <<",">>
            \o Member(<<"l", "n", "g">>, FormatV(p.Lng)) \o <<"}">>

\* The object of a crime.
CrimeShape(c) ==
    <<"{">> \o Join(<<Member(<<"i", "d">>, IntText(c.Id)),
                     Member(<<"d", "a", "t", "e">>, Quoted(c.Date)),
                     Member(<<"t", "i", "m", "e">>, Quoted(c.Time)),
                     Member(<<"t", "y", "p", "e">>, Quoted(c.Type))>>) \o <<"}">>

\* The object of a location: its point and its crimes in their stored order.
LocationShape(loc) ==
    <<"{">> \o Member(<<"p", "o", "i", "n", "t">>, PointShape(loc.Point)) \o <<",">>
            \o Member(<<"c", "r", "i", "m", "e", "s">>,
                      <<"[">> \o Join([k \in 1..Len(loc.Crimes) |-> CrimeShape(loc.Crimes[k])])
                              \o <<"]">>)
            \o <<"}">>

\* The fixed shape of a result: the query and the locations in their stored order.
ResultShape(r, hp) ==
    <<"{">> \o Member(<<"q", "u", "e", "r", "y">>, PointShape(r.Query)) \o <<",">>
            \o Member(<<"l", "o", "c", "a", "t", "i", "o", "n", "s">>,
                      <<"[">> \o Join([x \in 1..Len(r.Locations) |->
                                          LocationShape(hp[r.Locations[x]])])
                              \o <<"]">>)
            \o <<"}">>

\* C16: for every result with a Query, ToJson emits the fixed shape, with the
\* locations and the crimes in their stored order, one comma between
\* consecutive locations and between consecutive crimes, and no comma before
\* the first or after the last, for every number of locations and of crimes.
C16_ToJsonShape ==
    result.set =>
        /\ ~ToJson(result, heap).panic
        /\ ToJson(result, heap).bytes = ResultShape(result, heap)

\* A result with several locations, one of which has several crimes and one
\* of which has none or one.
C16_Witness ==
    /\ result.set
    /\ Len(result.Locations) > 1
    /\ \E x \in 1..Len(result.Locations) : Len(heap[result.Locations[x]].Crimes) > 1
    /\ \E x \in 1..Len(result.Locations) : Len(heap[result.Locations[x]].Crimes) <= 1
    /\ ToJson(result, heap).bytes = ResultShape(result, heap)

\* ---------------------------------------------------------------- C17

\* The control characters of the texts considered.
ControlChars == {"\n", "\r", "\t", "\f"}

\* The characters that may follow a backslash in a JSON string (the \u form is
\* not written by anything here).
EscapeChars == {"\"", "\\", "/", "b", "f", "n", "r", "t"}

\* The JSON grammar, without white space.  Each operator takes a text and a
\* position and gives the position after what it recognised there, or 0.

\* The characters of a string after its opening quote, up to its closing quote.
RECURSIVE JsonChars(_, _)
JsonChars(s, p) ==
    IF p > Len(s) THEN 0
    ELSE IF s[p] = "\"" THEN p + 1
    ELSE IF s[p] = "\\"
         THEN IF p + 1 <= Len(s) /\ s[p + 1] \in EscapeChars THEN JsonChars(s, p + 2) ELSE 0
    ELSE IF s[p] \in ControlChars THEN 0
    ELSE JsonChars(s, p + 1)

JsonString(s, p) == IF p <= Len(s) /\ s[p] = "\"" THEN JsonChars(s, p + 1) ELSE 0

\* The position after the digits that start at p.
RECURSIVE JsonDigits(_, _)
JsonDigits(s, p) == IF p <= Len(s) /\ IsDigit(s[p]) THEN JsonDigits(s, p + 1) ELSE p

\* An integer: an optional minus, then 0 or digits that do not start with 0.
JsonNumber(s, p) ==
    LET q == IF p <= Len(s) /\ s[p] = "-" THEN p + 1 ELSE p
        e == JsonDigits(s, q)
    IN  IF e = q THEN 0
        ELSE IF s[q] = "0" /\ e > q + 1 THEN 0
        ELSE e

RECURSIVE JsonValue(_, _)
RECURSIVE JsonElements(_, _)
RECURSIVE JsonMembers(_, _)

\* The values of an array after its opening bracket, up to its closing one.
JsonElements(s, p) ==
    LET e == JsonValue(s, p)
    IN  IF e = 0 \/ e > Len(s) THEN 0
        ELSE IF s[e] = "]" THEN e + 1
        ELSE IF s[e] = "," THEN JsonElements(s, e + 1)
        ELSE 0

\* The members of an object after its opening brace, up to its closing one.
JsonMembers(s, p) ==
    LET k == JsonString(s, p)
        e == IF k = 0 \/ k > Len(s) \/ s[k] # ":" THEN 0 ELSE JsonValue(s, k + 1)
    IN  IF e = 0 \/ e > Len(s) THEN 0
        ELSE IF s[e] = "}" THEN e + 1
        ELSE IF s[e] = "," THEN JsonMembers(s, e + 1)
        ELSE 0

JsonValue(s, p) ==
    IF p > Len(s) THEN 0
    ELSE IF s[p] = "\"" THEN JsonString(s, p)
    ELSE IF s[p] = "[" THEN (IF p + 1 <= Len(s) /\ s[p + 1] = "]" THEN p + 2
                             ELSE JsonElements(s, p + 1))
    ELSE IF s[p] = "{" THEN (IF p + 1 <= Len(s) /\ s[p + 1] = "}" THEN p + 2
                             ELSE JsonMembers(s, p + 1))
    ELSE JsonNumber(s, p)

\* Whether a text is one JSON value and nothing else.
ValidJson(s) == JsonValue(s, 1) = Len(s) + 1

\* Whether a text needs no escaping inside a JSON string.
Plain(text) == \A k \in 1..Len(text) : text[k] \notin ControlChars \cup {"\"", "\\"}

\* Whether the date, time and type of every crime of a result need no escaping.
AllPlain(r, hp) ==
    \A x \in 1..Len(r.Locations) :
        \A k \in 1..Len(hp[r.Locations[x]].Crimes) :
            LET crime == hp[r.Locations[x]].Crimes[k]
            IN  Plain(crime.Date) /\ Plain(crime.Time) /\ Plain(crime.Type)

\* FindNear returned a result for a query whose coordinates are numbers.
FiniteResult == result.set /\ IsFinite(result.Query.Lat) /\ IsFinite(result.Query.Lng)

\* C17: ToJson escapes the quotes, backslashes and control characters of a
\* crime's date, time and type, so that its output is valid JSON whatever those
\* strings hold.
C17_ToJsonEscapes ==
    FiniteResult => ~ToJson(result, heap).panic /\ ValidJson(ToJson(result, heap).bytes)

\* ---------------------------------------------------------------- C18

\* C18: ToJson completes and yields valid JSON for every result the package
\* itself produces: every result of FindNear and every result of All.
C18_ToJsonOfOwnResults ==
    (result.set \/ result.all) =>
        /\ ~ToJson(result, heap).panic
        /\ ValidJson(ToJson(result, heap).bytes)

\* The same for the results of All alone.
C18_ToJsonOfAll == result.all => ~ToJson(result, heap).panic

\* ================================================================== Crimes

\* Crimes that takes the first crime of each location only.
RECURSIVE CrimesFirstOnly(_, _, _)
CrimesFirstOnly(locs, hp, x) ==
    IF x > Len(locs) THEN <<>>
    ELSE (IF hp[locs[x]].Crimes = <<>> THEN <<>> ELSE <<Head(hp[locs[x]].Crimes)>>)
         \o CrimesFirstOnly(locs, hp, x + 1)

\* SearchResult.Crimes' loop from location x of the list on: every crime of
\* each location appended in turn.
RECURSIVE Crimes(_, _, _)
Crimes(locs, hp, x) ==
    IF x > Len(locs) THEN <<>>
    ELSE hp[locs[x]].Crimes \o Crimes(locs, hp, x + 1)

\* ---------------------------------------------------------------- C19

\* The number of crimes of the locations before location x of the list.
RECURSIVE Offset(_, _, _)
Offset(locs, hp, x) ==
    IF x <= 1 THEN 0 ELSE Offset(locs, hp, x - 1) + Len(hp[locs[x - 1]].Crimes)

\* C19: Crimes() of a result is the concatenation of the Crimes lists of its
\* locations: as long as the lists together, with crime k of location x at
\* place k after the crimes of the locations before x.
C19_CrimesIsConcatenation ==
    (result.set \/ result.all) =>
        LET locs == result.Locations
            all  == Crimes(locs, heap, 1)
        IN  /\ Len(all) = Offset(locs, heap, Len(locs) + 1)
            /\ \A x \in 1..Len(locs) :
                 \A k \in 1..Len(heap[locs[x]].Crimes) :
                     all[Offset(locs, heap, x) + k] = heap[locs[x]].Crimes[k]

\* A result of FindNear with two locations of two and of one crime.
C19_Witness ==
    /\ result.set
    /\ Len(result.Locations) = 2
    /\ Len(heap[result.Locations[1]].Crimes) + Len(heap[result.Locations[2]].Crimes) = 3
    /\ heap[result.Locations[1]].Crimes # <<>>
    /\ heap[result.Locations[2]].Crimes # <<>>
    /\ Len(Crimes(result.Locations, heap, 1)) = 3

\* ---------------------------------------------------------------- C20

\* The Crime of a row.
RowCrime(row) == Crime(ParseInt(row.id).n, row.date, row.time, row.type)

\* The rows given to loadFromCsv whose id parses: the crimes ingested.
Ingested == {k \in 1..Len(rows) : ParseInt(rows[k].id).ok}

\* C20: after a successful build, All() (with it Locations()) returns one
\* entry per location of the table, none missing and none twice, and the
\* Crimes() of All() are the ingested crimes, each as often as it was ingested.
C20_AllReturnsEverything ==
    (pc = "ready" /\ result.all) =>
        /\ Len(result.Locations) = Cardinality(DOMAIN finder.LocationLookup)
        /\ \A l \in Held(finder.LocationLookup) : Occurrences(result.Locations, l) = 1
        /\ LET all == Crimes(result.Locations, heap, 1)
           IN  /\ Len(all) = Cardinality(Ingested)
               /\ \A k \in Ingested :
                    Occurrences(all, RowCrime(rows[k])) =
                        Cardinality({j \in Ingested : RowCrime(rows[j]) = RowCrime(rows[k])})

\* All() on a finder with three locations, one of them without crimes.
C20_Witness ==
    /\ pc = "ready"
    /\ result.all
    /\ Len(result.Locations) = 3
    /\ Cardinality(Ingested) = 2
    /\ Len(Crimes(result.Locations, heap, 1)) = 2

\* ---------------------------------------------------------------- C21

\* C21: the result FindNear(q) returns carries q: its Query has q's latitude
\* and longitude, whatever q is and however many locations were found.
C21_QueryCarried ==
    [][\A q \in QueryPoints : (FindNear(q) /\ result'.set) => result'.Query = q]_vars

\* FindNear returned two locations for a query that is not the zero point.
C21_Witness ==
    /\ result.set
    /\ result.Query = Point(Float(801), Float(0 - 800))
    /\ Len(result.Locations) = 2

\* ---------------------------------------------------------------- C22

\* The categories of the rows whose id parses, each once, in the order of
\* their first appearance.
RECURSIVE FirstAppearances(_, _)
FirstAppearances(rs, seen) ==
    IF rs = <<>> THEN seen
    ELSE LET row == Head(rs)
         IN  FirstAppearances(Tail(rs),
                 IF ParseInt(row.id).ok /\ \A k \in 1..Len(seen) : seen[k] # row.type
                 THEN Append(seen, row.type)
                 ELSE seen)

\* C22: after a build, CrimeTypes holds every distinct category of the
\* ingested rows exactly once, in order of first appearance.
C22_CrimeTypesCollected ==
    pc = "ready" => finder.CrimeTypes = FirstAppearances(rows, <<>>)

\* The same during and after loadFromCsv, with the rows ingested so far; and
\* ingestion only appends: the CrimeTypes before a step is a prefix of the
\* CrimeTypes after it.
C22_CollectedSoFar ==
    pc \in {"load", "index", "ready"} =>
        finder.CrimeTypes = FirstAppearances(SubSeq(rows, 1, i - 1), <<>>)

C22_AppendOnly ==
    [][/\ Len(finder.CrimeTypes) <= Len(finder'.CrimeTypes)
       /\ SubSeq(finder'.CrimeTypes, 1, Len(finder.CrimeTypes)) = finder.CrimeTypes]_vars

\* ---------------------------------------------------------------- C23

\* loadFromCsv over all of rs, from the table locs and the objects hp.
RECURSIVE loadFromCsv(_, _, _, _)
loadFromCsv(locs, hp, types, rs) ==
    IF rs = <<>> THEN [locs |-> locs, heap |-> hp, types |-> types]
    ELSE LET after == loadStep(locs, hp, types, Head(rs))
         IN  loadFromCsv(after.locs, after.heap, after.types, Tail(rs))

\* NewCrimeFinder run again on the same file: the finder and the objects of
\* the second build, one for each order in which it may range over the map.
SecondBuilds ==
    LET loaded == loadFromCsv(EmptyLookup, <<>>, <<>>, filterRows(file))
    IN  {[lookup |-> loaded.locs,
          heap   |-> loaded.heap,
          Tree   |-> BuildTree(MakeNodes(loaded.locs, loaded.heap, order))] :
            order \in RangeOrders(DOMAIN loaded.locs)}

\* The locations FindNear(query) returns on a second build, as a set of
\* locations taken by value: the point and the crimes.
SecondResult(build, query) ==
    LET found == LookupNodes(FindRange(build.Tree, QueryRanges(query)), build.lookup)
    IN  {build.heap[found[k]] : k \in 1..Len(found)}

\* C23: a second build from the same rows gives, for every query point, the
\* same set of locations, each with the same crimes, as the first build,
\* whatever the order in which either build ranged over the map.
C23_BuildTwice ==
    (pc = "ready" /\ result.set) =>
        \A build \in SecondBuilds :
            SecondResult(build, result.Query)
                = {heap[result.Locations[k]] : k \in 1..Len(result.Locations)}

\* A query answered with locations by a finder whose tree is not the tree of
\* some second build.
C23_Witness ==
    /\ pc = "ready"
    /\ result.set
    /\ Len(result.Locations) > 1
    /\ \E build \in SecondBuilds : build.Tree # finder.Tree

\* ================================ the oldest server: the table built lazily

\* A Locations value of the oldest server: the nil map, which the global
\* `locations` is before a build stores one, or a map made by parseCrimes.
NilLocations == [nil |-> TRUE, map |-> EmptyLookup]

MadeLocations(locs) == [nil |-> FALSE, map |-> locs]

\* getKey: fmt.Sprintf("%s,%s", x, y).
getKey(x, y) == BadVerb(x) \o <<",">> \o BadVerb(y)

\* parseCrimes of the oldest server over rs, from the table locs and the
\* objects hp.  A row whose coordinates do not parse ends it with an error; a
\* row whose id does not parse is reported and its crime appended with the 0
\* that ParseInt returned.
RECURSIVE parseCrimes(_, _, _)
parseCrimes(rs, locs, hp) ==
    IF rs = <<>> THEN [ok |-> TRUE, locs |-> locs, heap |-> hp]
    ELSE LET row    == Head(rs)
             coords == rawCoords(row)
         IN  IF ~coords.ok THEN [ok |-> FALSE, locs |-> EmptyLookup, heap |-> hp]
             ELSE LET key   == getKey(coords.coords[1], coords.coords[2])
                      ok    == key \in DOMAIN locs
                      point == <<coords.coords[1], coords.coords[2]>>
                      at    == IF ok THEN locs[key] ELSE Len(hp) + 1
                      hp1   == IF ok THEN hp
                               ELSE Append(hp, [Point |-> point, Crimes |-> <<>>])
                      locs1 == IF ok THEN locs ELSE (key :> at) @@ locs
                      id    == ParseInt(row.id).n
                      crime == [Id |-> id, Date |-> row.date, Time |-> row.time,
                                Type |-> row.type, Point |-> hp1[at].Point]
                  IN  parseCrimes(Tail(rs), locs1,
                                  [hp1 EXCEPT ![at].Crimes = Append(@, crime)])

\* Locations.Near on table locs: a tree is made of all the points, and the
\* keeper keeps the NKeeperSize points nearest to the query.  The tables
\* considered hold fewer locations than that, so every location is kept.
NKeeperSize == 25

Near(locs, query) == MadeLocations([key \in DOMAIN locs.map |-> locs.map[key]])

\* The goroutines net/http runs the handler in, one per request in flight.
Handlers == {1, 2}

\* The rows of the data file of the oldest server.
LazyRows == {row \in QueryRows : row.id \in {<<"7">>, <<"9">>, <<"x", "7">>}}

\* A goroutine that has not taken its request yet.
Idle == [pc |-> "idle", query |-> <<>>, rows |-> <<>>, locations |-> NilLocations,
         nearby |-> NilLocations]

\* main: the handler is registered and the server listens; nothing is built.
InitLazy ==
    /\ file \in SeqsUpTo(LazyRows, MaxRows)
    /\ pc = "serving"
    /\ rows = <<>>
    /\ i = 1
    /\ locations = NilLocations
    /\ heap = <<>>
    /\ finder = ZeroFinder
    /\ err = "none"
    /\ calls = <<>>
    /\ result = NoResult
    /\ procs = [h \in Handlers |-> Idle]

\* handler up to getLocations' test of the global: the query is parsed (the
\* longitude from the lat parameter, as the latitude), then `locations != nil`
\* is read without synchronisation.  Once another goroutine has stored a
\* table, the read may see it or may still see nil.
HandlerStart(h) ==
    /\ pc = "serving"
    /\ procs[h].pc = "idle"
    /\ \E q \in Queries :
       \E stale \in BOOLEAN :
         LET seen == IF stale THEN NilLocations ELSE locations
         IN  procs' = [procs EXCEPT ![h] =
                         [@ EXCEPT !.query = <<q.Lat, q.Lat>>,
                                   !.locations = seen,
                                   !.pc = IF ~seen.nil THEN "near" ELSE "read"]]
    /\ UNCHANGED <<file, pc, rows, i, locations, heap, finder, err, calls, result>>

\* getLocations: readCrimes.  calls logs it.
HandlerRead(h) ==
    /\ pc = "serving"
    /\ procs[h].pc = "read"
    /\ procs' = [procs EXCEPT ![h] = [@ EXCEPT !.rows = filterRows(file), !.pc = "parse"]]
    /\ calls' = Append(calls, [op |-> "readCrimes", by |-> h])
    /\ UNCHANGED <<file, pc, rows, i, locations, heap, finder, err, result>>

\* getLocations: readCrimes fails; the handler's log.Fatal ends the process.
HandlerReadFails(h) ==
    /\ pc = "serving"
    /\ procs[h].pc = "read"
    /\ calls' = Append(calls, [op |-> "readCrimes", by |-> h])
    /\ err' = "io"
    /\ pc' = "exited"
    /\ UNCHANGED <<file, rows, i, locations, heap, finder, result, procs>>

\* getLocations: parseCrimes, whose result is stored in the global; an error
\* of it ends the process.
HandlerParse(h) ==
    /\ pc = "serving"
    /\ procs[h].pc = "parse"
    /\ LET parsed == parseCrimes(procs[h].rows, EmptyLookup, heap)
       IN  /\ locations' = IF parsed.ok THEN MadeLocations(parsed.locs) ELSE NilLocations
           /\ heap' = parsed.heap
           /\ IF parsed.ok
              THEN /\ procs' = [procs EXCEPT ![h] =
                                  [@ EXCEPT !.locations = MadeLocations(parsed.locs),
                                            !.pc = "near"]]
                   /\ UNCHANGED <<pc, err>>
              ELSE /\ err' = "parse"
                   /\ pc' = "exited"
                   /\ UNCHANGED procs
    /\ calls' = Append(calls, [op |-> "parseCrimes", by |-> h])
    /\ UNCHANGED <<file, rows, i, finder, result>>

\* The rest of handler: Near makes a tree of the table's points (calls logs
\* it) and keeps the nearest locations, whose crimes are the response.
HandlerNear(h) ==
    /\ pc = "serving"
    /\ procs[h].pc = "near"
    /\ procs' = [procs EXCEPT ![h] =
                   [@ EXCEPT !.nearby = Near(procs[h].locations, procs[h].query),
                             !.pc = "done"]]
    /\ calls' = Append(calls, [op |-> "kdtree.New", by |-> h])
    /\ UNCHANGED <<file, pc, rows, i, locations, heap, finder, err, result>>

NextLazy ==
    \E h \in Handlers :
        \/ HandlerStart(h)
        \/ HandlerRead(h)
        \/ HandlerReadFails(h)
        \/ HandlerParse(h)
        \/ HandlerNear(h)

SpecLazy == InitLazy /\ [][NextLazy]_vars

\* ---------------------------------------------------------------- C24

\* How many calls of op the log holds.
CallsOf(op) == Cardinality({k \in 1..Len(calls) : calls[k].op = op})

\* The table one whole build gives.
WholeTable == parseCrimes(filterRows(file), EmptyLookup, <<>>)

\* C24: whatever the interleaving of the handlers, at most one build
\* (readCrimes, parseCrimes) runs in the life of the process, and the table a
\* handler works on has a location for every coordinate of the file's rows.
C24_OneLazyBuild ==
    /\ CallsOf("readCrimes") <= 1
    /\ CallsOf("parseCrimes") <= 1
    /\ \A h \in Handlers :
         procs[h].pc \in {"near", "done"} =>
             DOMAIN procs[h].locations.map = DOMAIN WholeTable.locs

\* ===================================== FindNear called by several goroutines

\* The goroutines that call FindNear on the one finder at the same time, as
\* the server's handlers do.
Callers == {1, 2}

\* A goroutine that has not called FindNear yet.
Waiting == [pc |-> "waiting", query |-> Point(Float(0), Float(0)), results |-> <<>>,
            k |-> 1, Locations |-> <<>>]

InitConcurrent ==
    /\ file \in SeqsUpTo(LazyRows, MaxRows)
    /\ pc = "start"
    /\ rows = <<>>
    /\ i = 1
    /\ locations = EmptyLookup
    /\ heap = <<>>
    /\ finder = ZeroFinder
    /\ err = "none"
    /\ calls = <<>>
    /\ result = NoResult
    /\ procs = [c \in Callers |-> Waiting]

\* FindNear up to its loop, in goroutine c: the result is made and the range
\* search run on the finder's Tree.
FindNearSearch(c, query) ==
    /\ pc = "ready"
    /\ procs[c].pc = "waiting"
    /\ procs' = [procs EXCEPT ![c] =
                   [@ EXCEPT !.query = query,
                             !.results = FindRange(finder.Tree, QueryRanges(query)),
                             !.pc = "loop"]]
    /\ UNCHANGED <<file, pc, rows, i, locations, heap, finder, err, calls, result>>

\* One iteration of FindNear's loop in goroutine c: the node's key is looked
\* up in the finder's table.
FindNearLookup(c) ==
    /\ pc = "ready"
    /\ procs[c].pc = "loop"
    /\ procs[c].k <= Len(procs[c].results)
    /\ LET node == procs[c].results[procs[c].k]
           key  == GetCoordinateKey(node[1], node[2])
       IN  procs' = [procs EXCEPT ![c] =
                       [@ EXCEPT !.Locations = IF key \in DOMAIN finder.LocationLookup
                                               THEN Append(@, finder.LocationLookup[key])
                                               ELSE @,
                                 !.k = @ + 1]]
    /\ UNCHANGED <<file, pc, rows, i, locations, heap, finder, err, calls, result>>

\* The end of FindNear in goroutine c.
FindNearReturn(c) ==
    /\ pc = "ready"
    /\ procs[c].pc = "loop"
    /\ procs[c].k > Len(procs[c].results)
    /\ procs' = [procs EXCEPT ![c] = [@ EXCEPT !.pc = "returned"]]
    /\ UNCHANGED <<file, pc, rows, i, locations, heap, finder, err, calls, result>>

NextConcurrent ==
    \/ ReadCrimes
    \/ ReadCrimesFails
    \/ LoadRow
    \/ LoadReturn
    \/ BuildIndex
    \/ All
    \/ \E c \in Callers :
         \/ \E query \in Queries : FindNearSearch(c, query)
         \/ FindNearLookup(c)
         \/ FindNearReturn(c)

SpecConcurrent == InitConcurrent /\ [][NextConcurrent]_vars

\* ---------------------------------------------------------------- C25

\* What FindNear(query) returns when it runs alone on the finder.
Alone(query) ==
    LookupNodes(FindRange(finder.Tree, QueryRanges(query)), finder.LocationLookup)

\* C25: after a successful build no step of a query changes the finder's
\* table, CrimeTypes or Tree, or any location's Point or Crimes; and every
\* FindNear that returns, whatever ran between its steps, returns the
\* locations it returns when it runs alone.
C25_QueriesChangeNothing ==
    [][pc = "ready" =>
         /\ finder' = finder
         /\ heap' = heap
         /\ \A c \in Callers :
              procs'[c].pc = "returned" =>
                  {procs'[c].Locations[k] : k \in 1..Len(procs'[c].Locations)}
                      = {Alone(procs'[c].query)[k] : k \in 1..Len(Alone(procs'[c].query))}]_vars

\* Two calls in flight at once, both past the range search and neither
\* returned, after All was called, one of them with a location found.
C25_Witness ==
    /\ pc = "ready"
    /\ result.all
    /\ \A c \in Callers : procs[c].pc = "loop"
    /\ procs[1].k > 1 /\ procs[1].Locations # <<>>
    /\ procs[2].k = 1 /\ procs[2].results # <<>>

\* ---------------------------------------------------------------- C26

\* Whether both coordinate columns of a row hold some text.
HasCoordinates(row) == row.lat # <<>> /\ row.lng # <<>>

\* The file without its rows with an empty coordinate column.
OtherRows == SelectSeq(file, HasCoordinates)

\* C26: a row with an empty latitude or longitude is dropped without an
\* error: the rows ingested, the table and the locations with their crimes
\* are those of the file without such rows, and the build succeeds.
C26_EmptyCoordinateDropped ==
    (pc \in {"index", "ready"} /\ OtherRows # file) =>
        LET others == loadFromCsv(EmptyLookup, <<>>, <<>>, filterRows(OtherRows))
        IN  /\ rows = filterRows(OtherRows)
            /\ finder.LocationLookup = others.locs
            /\ heap = others.heap
            /\ finder.CrimeTypes = others.types
            /\ pc = "ready" => err = "nil" /\ finder.Tree.built

\* A file with a row without latitude, then a good row, then a row without
\* longitude was built: one location with one crime.
C26_Witness ==
    /\ pc = "ready"
    /\ err = "nil"
    /\ Len(file) = 3
    /\ file[1].lat = <<>> /\ HasCoordinates(file[2]) /\ file[3].lng = <<>>
    /\ Len(heap) = 1
    /\ Len(heap[1].Crimes) = 1

\* ---------------------------------------------------------------- C27

\* C27: the spatial index is made once in the life of the process: no query
\* makes an index or makes it again.
C27_IndexBuiltOnce == CallsOf("kdtree.New") <= 1

\* The same of the current CrimeFinder: the Tree is set by one step, which
\* comes after the last row was ingested and takes the nodes of the final
\* table, and no later step sets it again.
C27_FinderIndexedOnce ==
    [][finder'.Tree # finder.Tree =>
           /\ ~finder.Tree.built
           /\ pc = "index" /\ i > Len(rows)
           /\ finder.LocationLookup = locations
           /\ \E order \in RangeOrders(DOMAIN locations) :
                finder'.Tree = BuildTree(MakeNodes(locations, heap, order))]_vars

\* ======================================================= the older Crimes.ToJson

\* The older Crimes.ToJson's line for one crime: {%v,"%v","%v","%v"}.
crimeLine(crime) ==
    <<"{">> \o IntText(crime.Id) \o <<",", "\"">> \o crime.Date \o <<"\"", ",", "\"">> \o crime.Time
        \o <<"\"", ",", "\"">> \o crime.Type \o <<"\"", "}">>

\* The older Crimes.ToJson's loop, from crime k of the list on (k counted
\* from 1): isLast := total > 1 && i == total-1, and a comma unless isLast.
RECURSIVE crimeLines(_, _)
crimeLines(cs, k) ==
    IF k > Len(cs) THEN <<>>
    ELSE LET isLast == Len(cs) > 1 /\ k = Len(cs)
         IN  crimeLine(cs[k]) \o (IF ~isLast THEN <<",">> ELSE <<>>)
             \o crimeLines(cs, k + 1)

\* The older Crimes.ToJson.
CrimesToJson(cs) == <<"[">> \o crimeLines(cs, 1) \o <<"]">>

\* ---------------------------------------------------------------- C28

\* C28: Crimes.ToJson writes the crimes in order between [ and ], with one
\* comma between consecutive crimes and none after the last, for a list of
\* any length.
C28_CrimesToJsonCommas ==
    result.set =>
        LET cs == Crimes(result.Locations, heap, 1)
        IN  CrimesToJson(cs) = <<"[">> \o Join([k \in 1..Len(cs) |-> crimeLine(cs[k])]) \o <<"]">>

\* ================================================================== Points

\* SearchResult.Points: the list is made with one nil entry per location, and
\* the points are appended after those.
Points(locs, hp) ==
    [k \in 1..Len(locs) |-> NilPoint] \o [k \in 1..Len(locs) |-> hp[locs[k]].Point]

\* ---------------------------------------------------------------- C29

\* C29: Points() of a result holds the points of the result's locations: as
\* many entries as locations, the point of each location once, and no nil.
C29_PointsOfLocations ==
    (result.set \/ result.all) =>
        LET points == Points(result.Locations, heap)
        IN  /\ Len(points) = Len(result.Locations)
            /\ \A k \in 1..Len(points) : points[k] # NilPoint
            /\ \A x \in 1..Len(result.Locations) :
                 Occurrences(points, heap[result.Locations[x]].Point) = 1

====
